---- MODULE Spec2Model ----
(***************************************************************************)
(* Model of the UAV mission planner (src/mission.js, class MissionPlanner).*)
(*                                                                         *)
(* Waypoints are JavaScript objects held by reference: `waypoints` and     *)
(* `markers` are sequences of object identities and `objs` is the heap     *)
(* that maps an identity to the object's fields, so that two entries of    *)
(* the sequence may be one and the same object.                            *)
(*                                                                         *)
(* Numbers are JavaScript numbers.  They are modelled as non-negative      *)
(* rationals extended with Infinity and NaN (records [k, n, d]); the       *)
(* rounding of IEEE doubles is not modelled.  An absent (null, undefined)  *)
(* numeric field is modelled as 0: every place that reads such a field     *)
(* tests it for truthiness or uses it in arithmetic, where null is 0.      *)
(* Coordinates are in microdegrees.                                        *)
(***************************************************************************)
EXTENDS Integers, Sequences, FiniteSets, TLC

\* ------------------------------------------------------------------ bounds
MaxWaypoints == 4
MaxPending == 1
MaxPlanned == 3
MaxDrones == 2

\* ------------------------------------------------- JavaScript number model
RECURSIVE GCD(_, _)
GCD(a, b) == IF b = 0 THEN a ELSE GCD(b, a % b)

Reduced(n, d, g) == [k |-> "fin", n |-> n \div g, d |-> d \div g]
Fin(n, d) == Reduced(n, d, GCD(n, d))
NaN == [k |-> "nan", n |-> 0, d |-> 1]
Infinity == [k |-> "inf", n |-> 0, d |-> 1]
Num(i) == Fin(i, 1)

\* a / b on non-negative numbers
FDiv(a, b) ==
    IF a.k = "nan" \/ b.k = "nan" THEN NaN
    ELSE IF a.k = "inf" THEN (IF b.k = "inf" THEN NaN ELSE Infinity)
    ELSE IF b.k = "inf" THEN Num(0)
    ELSE IF b.n = 0 THEN (IF a.n = 0 THEN NaN ELSE Infinity)
    ELSE Fin(a.n * b.d, a.d * b.n)

\* a * b on non-negative numbers
FMul(a, b) ==
    IF a.k = "nan" \/ b.k = "nan" THEN NaN
    ELSE IF a.k = "inf" THEN (IF b.k = "fin" /\ b.n = 0 THEN NaN ELSE Infinity)
    ELSE IF b.k = "inf" THEN (IF a.n = 0 THEN NaN ELSE Infinity)
    ELSE Fin(a.n * b.n, a.d * b.d)

\* a + b on non-negative numbers
FAdd(a, b) ==
    IF a.k = "nan" \/ b.k = "nan" THEN NaN
    ELSE IF a.k = "inf" \/ b.k = "inf" THEN Infinity
    ELSE Fin(a.n * b.d + b.n * a.d, a.d * b.d)

\* a > b : false as soon as one side is NaN
FGt(a, b) ==
    IF a.k = "nan" \/ b.k = "nan" THEN FALSE
    ELSE IF a.k = "inf" THEN b.k # "inf"
    ELSE IF b.k = "inf" THEN FALSE
    ELSE a.n * b.d > b.n * a.d

\* x.toFixed(1): the number rounded to tenths, or the text of a non-finite
toFixed1(x) ==
    IF x.k = "nan" THEN [text |-> "NaN", tenths |-> 0]
    ELSE IF x.k = "inf" THEN [text |-> "Infinity", tenths |-> 0]
    ELSE [text |-> "number", tenths |-> (20 * x.n + x.d) \div (2 * x.d)]

\* ---------------------------------------------------------------- geometry
\* Map positions a click or a document can supply: <<lat, lng>>
Points == {<<0, 0>>, <<0, 1000>>}

Abs(x) == IF x < 0 THEN -x ELSE x

\* Haversine distance in metres.  The trigonometry is tabulated, in
\* centimetres, for the coordinates of Points (and one step beyond); equal
\* entries are equal doubles and the order of the entries is the order of
\* the doubles the formula returns.
calculateDistance(lat1, lng1, lat2, lng2) ==
    LET dlat == Abs(lat2 - lat1)
        dlng == Abs(lng2 - lng1)
        cm == CASE dlat = 0 /\ dlng = 0 -> 0
                [] dlat = 0 /\ dlng = 1000 -> 11119
                [] dlat = 1000 /\ dlng = 0 -> 11119
                [] dlat = 1000 /\ dlng = 1000 -> 15725
                [] dlat = 0 /\ dlng = 2000 -> 22239
                [] dlat = 1000 /\ dlng = 2000 -> 24864
    IN Fin(cm, 100)

\* ------------------------------------------------------------------ drones
\* Drone profiles held by the DroneManager (read from localStorage).
NoDrone == [id |-> 0, cruiseSpeed |-> 0, maxFlightTime |-> 0, batteryCapacity |-> 0,
            hoverCurrent |-> 0, maxAltitude |-> 0, windResistance |-> 0]

Drones == <<
    [id |-> 1, cruiseSpeed |-> 15, maxFlightTime |-> 5, batteryCapacity |-> 5000,
     hoverCurrent |-> 60, maxAltitude |-> 40, windResistance |-> 0],
    [id |-> 2, cruiseSpeed |-> 10, maxFlightTime |-> 0, batteryCapacity |-> 5000,
     hoverCurrent |-> 48, maxAltitude |-> 120, windResistance |-> 12],
    [id |-> 3, cruiseSpeed |-> 15, maxFlightTime |-> 0, batteryCapacity |-> 5000,
     hoverCurrent |-> 0, maxAltitude |-> 0, windResistance |-> 0],
    [id |-> 4, cruiseSpeed |-> 0, maxFlightTime |-> 5, batteryCapacity |-> 5000,
     hoverCurrent |-> 0, maxAltitude |-> 0, windResistance |-> 0] >>

\* droneManager.getDroneById: the profile with that id, or nothing
getDroneById(droneId) ==
    IF \E i \in 1..Len(Drones) : Drones[i].id = droneId
    THEN Drones[CHOOSE i \in 1..Len(Drones) : Drones[i].id = droneId]
    ELSE NoDrone

\* ------------------------------------------------------------------- state
VARIABLES
    waypoints,       \* this.waypoints: sequence of waypoint identities
    objs,            \* heap: identity -> [lat, lng, altitude, speed, hoverTime, type]
    markers,         \* this.markers: the waypoint identity of each marker
    icons,           \* the text in the icon of each marker
    selectedDrone,   \* this.selectedDrone (NoDrone for null)
    homePoint,       \* this.homePoint: <<>> for null, else <<[lat, lng]>>
    defaultAltitude, defaultSpeed, safetyReserve, windSpeed,
    pendingReads,    \* FileReader reads started and not yet delivered
    summaryStatus,   \* text of #summary-status
    summaryBattery,  \* text of #summary-battery
    warnings,        \* list rendered into #mission-warnings
    drones,          \* DroneManager: this.drones, the profile objects in order
    currentDrone,    \* DroneManager: this.currentDrone
    editMode,        \* DroneManager: this.editMode
    lastOp,          \* history: outcome of the last step if it was optimizePath,
                     \* selectDrone or saveDrone, "other" if not
    pre              \* history: this.waypoints before the last optimizePath

vars == <<waypoints, objs, markers, icons, selectedDrone, homePoint, defaultAltitude,
          defaultSpeed, safetyReserve, windSpeed, pendingReads, summaryStatus,
          summaryBattery, warnings, drones, currentDrone, editMode, lastOp, pre>>

managerVars == <<drones, currentDrone, editMode>>
plannerVars == <<waypoints, objs, markers, icons, selectedDrone, homePoint,
                 defaultAltitude, defaultSpeed, safetyReserve, windSpeed, pendingReads,
                 summaryStatus, summaryBattery, warnings>>

RECURSIVE SumDistance(_, _, _)
SumDistance(wps, o, i) ==
    IF i >= Len(wps) THEN Num(0)
    ELSE FAdd(calculateDistance(o[wps[i]].lat, o[wps[i]].lng,
                                o[wps[i + 1]].lat, o[wps[i + 1]].lng),
              SumDistance(wps, o, i + 1))

getTotalDistance(m) ==
    IF Len(m.waypoints) < 2 THEN Num(0) ELSE SumDistance(m.waypoints, m.objs, 1)

RECURSIVE SumHover(_, _, _)
SumHover(wps, o, i) ==
    IF i > Len(wps) THEN 0 ELSE o[wps[i]].hoverTime + SumHover(wps, o, i + 1)

\* a || b on numbers
Or(a, b) == IF a # 0 THEN a ELSE b

\* the speed the flight time is computed with
AvgSpeed(m) == Or(m.defaultSpeed, m.selectedDrone.cruiseSpeed)

\* flight time in minutes over the straight path (lines 535-538, 707-710)
FlightTime(m) ==
    LET avgSpeed == Num(AvgSpeed(m))
        windFactor == FAdd(Num(1), FMul(FDiv(Num(m.windSpeed), avgSpeed), Fin(3, 10)))
        adjustedSpeed == FDiv(avgSpeed, windFactor)
    IN FDiv(FDiv(getTotalDistance(m), adjustedSpeed), Num(60))

\* BatteryRequired that derives the maximum flight time from the battery
\* whenever capacity and hover current are known
BatteryRequired_derivedFirst(m) ==
    LET totalHoverTime == FDiv(Num(SumHover(m.waypoints, m.objs, 1)), Num(60))
        totalFlightTime == FAdd(FlightTime(m), totalHoverTime)
        d == m.selectedDrone
    IN IF d.batteryCapacity # 0 /\ d.hoverCurrent # 0
       THEN LET maxFlightTime == FMul(FMul(FDiv(FDiv(Num(d.batteryCapacity), Num(1000)),
                                                Num(d.hoverCurrent)), Num(60)), Fin(8, 10))
            IN FMul(FDiv(totalFlightTime, maxFlightTime), Num(100))
       ELSE IF d.maxFlightTime # 0
       THEN FMul(FDiv(totalFlightTime, Num(d.maxFlightTime)), Num(100))
       ELSE Num(0)

\* batteryRequired as updateMissionSummary computes it
BatteryRequired(m) ==
    LET totalHoverTime == FDiv(Num(SumHover(m.waypoints, m.objs, 1)), Num(60))
        totalFlightTime == FAdd(FlightTime(m), totalHoverTime)
        d == m.selectedDrone
    IN IF d.maxFlightTime # 0
       THEN FMul(FDiv(totalFlightTime, Num(d.maxFlightTime)), Num(100))
       ELSE IF d.batteryCapacity # 0 /\ d.hoverCurrent # 0
       THEN LET maxFlightTime == FMul(FMul(FDiv(FDiv(Num(d.batteryCapacity), Num(1000)),
                                                Num(d.hoverCurrent)), Num(60)), Fin(8, 10))
            IN FMul(FDiv(totalFlightTime, maxFlightTime), Num(100))
       ELSE Num(0)

WithReserve(batteryRequired, reserve) ==
    FMul(batteryRequired, FAdd(Num(1), FDiv(Num(reserve), Num(100))))

BatteryWithReserve(m) == WithReserve(BatteryRequired(m), m.safetyReserve)

\* StatusOf with inclusive thresholds
StatusOf_inclusive(batteryWithReserve) ==
    IF ~FGt(Num(100), batteryWithReserve) THEN "CANNOT COMPLETE"
    ELSE IF ~FGt(Num(80), batteryWithReserve) THEN "RISKY"
    ELSE "FEASIBLE"

\* StatusOf without the RISKY band
StatusOf_noRisky(batteryWithReserve) ==
    IF FGt(batteryWithReserve, Num(100)) THEN "CANNOT COMPLETE"
    ELSE "FEASIBLE"

\* the text written to #summary-status for a battery requirement with reserve
StatusOf(batteryWithReserve) ==
    IF FGt(batteryWithReserve, Num(100)) THEN "CANNOT COMPLETE"
    ELSE IF FGt(batteryWithReserve, Num(80)) THEN "RISKY"
    ELSE "FEASIBLE"

Warning(t, msg, arg) == [type |-> t, message |-> msg, arg |-> arg]
WNoDrone == Warning("info", "Select a drone to start planning", 0)
WNoWaypoints == Warning("info", "Add waypoints to create a mission", 0)
WExceeds == Warning("error", "Mission exceeds drone battery capacity", 0)
WLowMargin == Warning("warning", "Low battery margin - consider adding charging stop", 0)
WFeasible == Warning("success", "Mission is feasible with current parameters", 0)
WAltitude(limit) == Warning("warning", "Waypoint exceeds max altitude", limit)
WWind == Warning("warning", "Wind speed exceeds drone capabilities", 0)
WNoHome == Warning("info", "No home point set - consider setting one for safety", 0)

MaxAltitudeOf(wps, o) ==
    CHOOSE a \in {o[wps[i]].altitude : i \in 1..Len(wps)} :
        \A i \in 1..Len(wps) : o[wps[i]].altitude <= a

\* the warning updateWarnings derives from its battery requirement with reserve
WarningOf(batteryWithReserve) ==
    IF FGt(batteryWithReserve, Num(100)) THEN WExceeds
    ELSE IF FGt(batteryWithReserve, Num(80)) THEN WLowMargin
    ELSE WFeasible

\* the "Check battery" block of updateWarnings
BatteryWarning(m) ==
    LET d == m.selectedDrone
        batteryRequired == IF d.maxFlightTime # 0
                           THEN FMul(FDiv(FlightTime(m), Num(d.maxFlightTime)), Num(100))
                           ELSE Num(0)
    IN WarningOf(WithReserve(batteryRequired, m.safetyReserve))

\* the list updateWarnings renders
updateWarnings(m) ==
    LET d == m.selectedDrone IN
    IF d = NoDrone THEN <<WNoDrone>>
    ELSE IF Len(m.waypoints) = 0 THEN <<WNoWaypoints>>
    ELSE <<BatteryWarning(m)>>
         \o (IF d.maxAltitude # 0 /\ MaxAltitudeOf(m.waypoints, m.objs) > d.maxAltitude
             THEN <<WAltitude(d.maxAltitude)>> ELSE <<>>)
         \o (IF m.windSpeed > Or(d.windResistance, 10) THEN <<WWind>> ELSE <<>>)
         \o (IF m.homePoint = <<>> THEN <<WNoHome>> ELSE <<>>)

\* updateMissionSummary: the planner state with the summary (and, past the
\* early return, the warning list) recomputed
updateMissionSummary(m) ==
    IF m.selectedDrone = NoDrone \/ Len(m.waypoints) < 2
    THEN [m EXCEPT !.summaryStatus = IF m.selectedDrone = NoDrone
                                     THEN "No drone selected" ELSE "No waypoints",
                   !.summaryBattery = [text |-> "0%", tenths |-> 0]]
    ELSE [m EXCEPT !.summaryStatus = StatusOf(BatteryWithReserve(m)),
                   !.summaryBattery = toFixed1(BatteryRequired(m)),
                   !.warnings = updateWarnings(m)]

\* ----------------------------------------------------------------- methods
\* A planner state is the record of the fields of `this` and of the display:
\* [waypoints, objs, markers, icons, selectedDrone, homePoint, defaultAltitude,
\*  defaultSpeed, safetyReserve, windSpeed, summaryStatus, summaryBattery,
\*  warnings].  A method is a function from planner states to planner states.

Range(q) == {q[i] : i \in 1..Len(q)}

\* the objects still referenced (what the garbage collector keeps)
Collect(s) ==
    [s EXCEPT !.objs = [i \in Range(s.waypoints) \cup Range(s.markers) |-> s.objs[i]]]

\* identity of a newly created object (Date.now() + Math.random(): unique)
NewId(s) == CHOOSE i \in 1..(Cardinality(DOMAIN s.objs) + 1) : i \notin DOMAIN s.objs

\* q with its i-th element removed (splice(i, 1))
Splice(q, i) == SubSeq(q, 1, i - 1) \o SubSeq(q, i + 1, Len(q))

\* first index of q whose element satisfies Test, 0 if none (findIndex / indexOf)
FindIndex(q, Test(_)) ==
    IF \E i \in 1..Len(q) : Test(q[i])
    THEN CHOOSE i \in 1..Len(q) : Test(q[i]) /\ \A j \in 1..(i - 1) : ~Test(q[j])
    ELSE 0

\* the text of a marker's icon: H, R or the number
IconOf(s, id, number) ==
    IF s.objs[id].type = "home" THEN [text |-> "H", number |-> 0]
    ELSE IF s.objs[id].type = "rtl" THEN [text |-> "R", number |-> 0]
    ELSE [text |-> "number", number |-> number]

\* addMarker(waypoint): the number is this.waypoints.indexOf(waypoint) + 1
addMarker(s, id) ==
    LET IsIt(x) == x = id
    IN [s EXCEPT !.markers = Append(s.markers, id),
                 !.icons = Append(s.icons, IconOf(s, id, FindIndex(s.waypoints, IsIt)))]

\* updateMarkers: every marker takes the number of its place among the markers
updateMarkers(s) ==
    [s EXCEPT !.icons = [i \in 1..Len(s.markers) |-> IconOf(s, s.markers[i], i)]]

\* this.waypoints.forEach(wp => this.addMarker(wp)) from waypoint i on
RECURSIVE addMarkers(_, _)
addMarkers(s, i) ==
    IF i > Len(s.waypoints) THEN s
    ELSE addMarkers(addMarker(s, s.waypoints[i]), i + 1)

addWaypoint(s, lat, lng, type, altitude, speed, hoverTime) ==
    LET id == NewId(s)
        waypoint == [lat |-> lat, lng |-> lng,
                     altitude |-> Or(altitude, s.defaultAltitude),
                     speed |-> Or(speed, Or(s.defaultSpeed, Or(s.selectedDrone.cruiseSpeed, 15))),
                     hoverTime |-> hoverTime,
                     type |-> type]
        pushed == [s EXCEPT !.objs = [i \in DOMAIN s.objs \cup {id} |->
                                         IF i = id THEN waypoint ELSE s.objs[i]],
                            !.waypoints = Append(s.waypoints, id)]
    IN updateMissionSummary(addMarker(pushed, id))

\* deleteWaypoint(waypoint) for the object with identity id
deleteWaypoint(s, id) ==
    LET IsIt(x) == x = id
        index == FindIndex(s.waypoints, IsIt)
        markerObj == FindIndex(s.markers, IsIt)
    IN IF index = 0 THEN s
       ELSE updateMissionSummary(Collect(updateMarkers(
                [s EXCEPT !.waypoints = Splice(s.waypoints, index),
                          !.markers = IF markerObj = 0 THEN s.markers
                                      ELSE Splice(s.markers, markerObj),
                          !.icons = IF markerObj = 0 THEN s.icons
                                    ELSE Splice(s.icons, markerObj)])))

\* the marker's dragend handler: the waypoint object takes the new position
dragMarker(s, id, lat, lng) ==
    updateMissionSummary([s EXCEPT !.objs[id].lat = lat, !.objs[id].lng = lng])

\* generateSmoothPath interpolates with a fixed number of steps per segment
segmentsPerPoint == 20

\* Coordinates of a path point are counted in units of 1/SplineUnit of the
\* unit of a waypoint coordinate, the common denominator of 0.5 * t^3 for
\* t = 0/20 .. 19/20; Exact(x) is the coordinate x itself in that unit.
SplineUnit == 2 * segmentsPerPoint * segmentsPerPoint * segmentsPerPoint
Exact(x) == SplineUnit * x

catmullRom_fromPrevious(p0, p1, p2, p3, t) ==
    LET t2 == t * t
        t3 == t2 * t
    IN Exact(p0)
       + (-p0 + p2) * t * (segmentsPerPoint * segmentsPerPoint)
       + (2 * p0 - 5 * p1 + 4 * p2 - p3) * t2 * segmentsPerPoint
       + (-p0 + 3 * p1 - 3 * p2 + p3) * t3

\* catmullRom(p0, p1, p2, p3, t / segmentsPerPoint), in units of 1/SplineUnit
catmullRom(p0, p1, p2, p3, t) ==
    LET t2 == t * t
        t3 == t2 * t
    IN Exact(p1)
       + (-p0 + p2) * t * (segmentsPerPoint * segmentsPerPoint)
       + (2 * p0 - 5 * p1 + 4 * p2 - p3) * t2 * segmentsPerPoint
       + (-p0 + 3 * p1 - 3 * p2 + p3) * t3

Max(a, b) == IF a > b THEN a ELSE b
Min(a, b) == IF a < b THEN a ELSE b

\* the points pushed by the two loops of generateSmoothPath, in order: the
\* (k - 1)-th push belongs to segment i = (k - 1) \div 20 at step
\* t = (k - 1) % 20 (indices of points are 1-based here)
SmoothPoints(points) ==
    [k \in 1..(segmentsPerPoint * (Len(points) - 1)) |->
        LET i == (k - 1) \div segmentsPerPoint
            t == (k - 1) % segmentsPerPoint
            p0 == points[Max(0, i - 1) + 1]
            p1 == points[i + 1]
            p2 == points[i + 2]
            p3 == points[Min(Len(points) - 1, i + 2) + 1]
        IN <<catmullRom(p0.lat, p1.lat, p2.lat, p3.lat, t),
             catmullRom(p0.lng, p1.lng, p2.lng, p3.lng, t)>>]

generateSmoothPath_noLastPoint(s) ==
    LET points == [i \in 1..Len(s.waypoints) |-> s.objs[s.waypoints[i]]]
    IN IF Len(s.waypoints) < 3
       THEN [i \in 1..Len(points) |-> <<Exact(points[i].lat), Exact(points[i].lng)>>]
       ELSE SmoothPoints(points)

generateSmoothPath(s) ==
    LET points == [i \in 1..Len(s.waypoints) |-> s.objs[s.waypoints[i]]]
        lastPoint == points[Len(points)]
    IN IF Len(s.waypoints) < 3
       THEN [i \in 1..Len(points) |-> <<Exact(points[i].lat), Exact(points[i].lng)>>]
       ELSE Append(SmoothPoints(points), <<Exact(lastPoint.lat), Exact(lastPoint.lng)>>)

setHomePoint(s) ==
    IF Len(s.waypoints) = 0 THEN s
    ELSE LET first == s.objs[s.waypoints[1]]
         IN updateMarkers(
                [s EXCEPT !.homePoint = <<[lat |-> first.lat, lng |-> first.lng]>>,
                          !.objs[s.waypoints[1]].type = "home"])

\* addReturnToLaunch; with a home point and no waypoint the read of
\* waypoints[-1].type throws and the handler ends there
addReturnToLaunch(s) ==
    IF s.homePoint = <<>> THEN s
    ELSE IF Len(s.waypoints) = 0 THEN s
    ELSE IF s.objs[s.waypoints[Len(s.waypoints)]].type = "rtl" THEN s
    ELSE addWaypoint(s, s.homePoint[1].lat, s.homePoint[1].lng, "rtl",
                     s.defaultAltitude, 0, 0)

\* a scan that settles equal distances by the identity of the objects
NearestScan_byIdentity(o, current, remaining, i, nearestIndex, nearestDist) ==
    LET Dist(j) == calculateDistance(o[current].lat, o[current].lng,
                                     o[remaining[j]].lat, o[remaining[j]].lng)
        Least == {j \in 1..Len(remaining) : \A x \in 1..Len(remaining) : ~FGt(Dist(j), Dist(x))}
    IN CHOOSE j \in Least : \A x \in Least : remaining[x] <= remaining[j]

\* the scan with a non-strict comparison: the last minimum wins
NearestScan_lastWins(o, current, remaining, i, nearestIndex, nearestDist) ==
    LET Dist(j) == calculateDistance(o[current].lat, o[current].lng,
                                     o[remaining[j]].lat, o[remaining[j]].lng)
        Least == {j \in 1..Len(remaining) : \A x \in 1..Len(remaining) : ~FGt(Dist(j), Dist(x))}
    IN CHOOSE j \in Least : \A x \in Least : x <= j

\* the forEach scan of the nearest-neighbour loop: index of the first
\* element of remaining at the least distance from current
RECURSIVE NearestScan(_, _, _, _, _, _)
NearestScan(o, current, remaining, i, nearestIndex, nearestDist) ==
    IF i > Len(remaining) THEN nearestIndex
    ELSE LET dist == calculateDistance(o[current].lat, o[current].lng,
                                       o[remaining[i]].lat, o[remaining[i]].lng)
         IN IF FGt(nearestDist, dist)
            THEN NearestScan(o, current, remaining, i + 1, i, dist)
            ELSE NearestScan(o, current, remaining, i + 1, nearestIndex, nearestDist)

RECURSIVE NearestNeighbor(_, _, _)
NearestNeighbor(o, optimized, remaining) ==
    IF Len(remaining) = 0 THEN optimized
    ELSE LET current == optimized[Len(optimized)]
             nearestIndex == NearestScan(o, current, remaining, 1, 1, Infinity)
         IN NearestNeighbor(o, Append(optimized, remaining[nearestIndex]),
                            Splice(remaining, nearestIndex))

\* the waypoints optimizePath may reorder
Optimizable(s) ==
    LET IsOrdinary(id) == s.objs[id].type = "waypoint"
    IN SelectSeq(s.waypoints, IsOrdinary)

\* does optimizePath get past its two early returns
Reorders(s) == Len(s.waypoints) >= 3 /\ Len(Optimizable(s)) >= 2

\* optimizePath that starts at the first waypoint whether or not there is a home
optimizePath_startFirst(s) ==
    LET IsRtl(id) == s.objs[id].type = "rtl"
        rtlIndex == FindIndex(s.waypoints, IsRtl)
        visited == NearestNeighbor(s.objs, <<s.waypoints[1]>>, Optimizable(s))
        optimized == IF rtlIndex # 0 THEN Append(visited, s.waypoints[rtlIndex]) ELSE visited
        Update(wps) == updateMissionSummary(Collect(addMarkers(
                           [s EXCEPT !.waypoints = wps, !.markers = <<>>, !.icons = <<>>], 1)))
    IN IF ~Reorders(s) THEN s ELSE Update(optimized)

optimizePath(s) ==
    LET IsHome(id) == s.objs[id].type = "home"
        IsRtl(id) == s.objs[id].type = "rtl"
        homeIndex == FindIndex(s.waypoints, IsHome)
        rtlIndex == FindIndex(s.waypoints, IsRtl)
        startPoint == IF homeIndex # 0 THEN s.waypoints[homeIndex] ELSE s.waypoints[1]
        visited == NearestNeighbor(s.objs, <<startPoint>>, Optimizable(s))
        optimized == IF rtlIndex # 0 THEN Append(visited, s.waypoints[rtlIndex]) ELSE visited
        Update(wps) == updateMissionSummary(Collect(addMarkers(
                           [s EXCEPT !.waypoints = wps, !.markers = <<>>, !.icons = <<>>], 1)))
    IN IF ~Reorders(s) THEN s ELSE Update(optimized)

\* clearMission; confirmed is the answer to the confirm() dialog
clearMission(s, confirmed) ==
    IF Len(s.waypoints) = 0 THEN s
    ELSE IF ~confirmed THEN s
    ELSE updateMissionSummary(Collect(
             [s EXCEPT !.markers = <<>>, !.icons = <<>>, !.waypoints = <<>>,
                       !.homePoint = <<>>]))

\* the tail of selectDrone once the profile was found: the summary, then the
\* warnings, are recomputed
selectFound(summed) == [summed EXCEPT !.warnings = updateWarnings(summed)]

selectDrone(s, droneId) ==
    IF droneId = 0
    THEN updateMissionSummary([s EXCEPT !.selectedDrone = NoDrone])
    ELSE LET Select(found) ==
                 IF found = NoDrone THEN [s EXCEPT !.selectedDrone = found]
                 ELSE selectFound(updateMissionSummary(
                          [s EXCEPT !.selectedDrone = found,
                                    !.defaultSpeed = IF @ = 0 THEN found.cruiseSpeed ELSE @]))
         IN Select(getDroneById(droneId))

\* ---------------------------------------------------------- mission files
\* A mission document: json is what JSON.parse makes of the text ("invalid":
\* it throws, "null": the value null, "object": an object); drone is the
\* drone id (0: none); parameters is <<>> or <<[...]>>; waypoints is the
\* array of waypoint entries.
Entry(pt, type, hover) ==
    [latitude |-> pt[1], longitude |-> pt[2], altitude |-> 0, speed |-> 0,
     hoverTime |-> hover, type |-> type]

Document(drone, parameters, wps) ==
    [json |-> "object", drone |-> drone, parameters |-> parameters, waypoints |-> wps]

DefaultParameters ==
    [defaultAltitude |-> 50, defaultSpeed |-> 15, safetyReserve |-> 20, windSpeed |-> 0]

\* a file whose text JSON.parse rejects, and one whose text is "null"
InvalidFile == [json |-> "invalid", drone |-> 0, parameters |-> <<>>, waypoints |-> <<>>]
NullFile == [json |-> "null", drone |-> 0, parameters |-> <<>>, waypoints |-> <<>>]

\* files the user may pick for import
ImportFiles ==
    { Document(0, <<>>, <<Entry(<<0, 0>>, "home", 0), Entry(<<0, 1000>>, "waypoint", 0)>>),
      InvalidFile, NullFile }

\* missions in localStorage, as saveMission wrote them
HoverTimes == {120, 150}
SavedMissions ==
    { Document(1, <<DefaultParameters>>,
               <<Entry(<<0, 0>>, "waypoint", 0), Entry(pt, "waypoint", h)>>) :
        h \in HoverTimes, pt \in Points }

\* the mission object exportMission serialises (the fields an import reads)
exportMission(s) ==
    Document(s.selectedDrone.id,
             <<[defaultAltitude |-> s.defaultAltitude, defaultSpeed |-> s.defaultSpeed,
                safetyReserve |-> s.safetyReserve, windSpeed |-> s.windSpeed]>>,
             [i \in 1..Len(s.waypoints) |->
                 [latitude |-> s.objs[s.waypoints[i]].lat,
                  longitude |-> s.objs[s.waypoints[i]].lng,
                  altitude |-> s.objs[s.waypoints[i]].altitude,
                  speed |-> s.objs[s.waypoints[i]].speed,
                  hoverTime |-> s.objs[s.waypoints[i]].hoverTime,
                  type |-> s.objs[s.waypoints[i]].type]])

\* the files exportMission writes for planner state s: none without a
\* waypoint or without a drone
ExportedFiles(s) ==
    IF Len(s.waypoints) = 0 \/ s.selectedDrone = NoDrone THEN {} ELSE {exportMission(s)}

\* the "Load parameters" block
loadParameters(s, mission) ==
    IF mission.parameters = <<>> THEN s
    ELSE LET q == mission.parameters[1]
         IN [s EXCEPT !.defaultAltitude = Or(q.defaultAltitude, 50),
                      !.defaultSpeed = Or(q.defaultSpeed, 0),
                      !.safetyReserve = Or(q.safetyReserve, 20),
                      !.windSpeed = Or(q.windSpeed, 0)]

\* mission.waypoints.forEach(wp => this.addWaypoint(...)) from entry i on
RECURSIVE addWaypoints(_, _, _)
addWaypoints(s, entries, i) ==
    IF i > Len(entries) THEN s
    ELSE LET wp == entries[i]
         IN addWaypoints(addWaypoint(s, wp.latitude, wp.longitude, wp.type,
                                     wp.altitude, wp.speed, wp.hoverTime),
                         entries, i + 1)

\* the "Load waypoints" block with "Set home point if exists"
loadWaypoints(s, mission) ==
    LET IsHome(wp) == wp.type = "home"
        homeWp == FindIndex(mission.waypoints, IsHome)
        added == addWaypoints(s, mission.waypoints, 1)
    IN IF homeWp = 0 THEN added
       ELSE [added EXCEPT !.homePoint =
                <<[lat |-> mission.waypoints[homeWp].latitude,
                   lng |-> mission.waypoints[homeWp].longitude]>>]

\* clear, load the drone, the parameters and the waypoints of a parsed mission
loadMission(s, mission, confirmed) ==
    LET cleared == clearMission(s, confirmed)
        droned == IF mission.drone # 0 THEN selectDrone(cleared, mission.drone) ELSE cleared
    IN loadWaypoints(loadParameters(droned, mission), mission)

\* reader.onload of importMission for the text of a file
importOnload(s, file, confirmed) ==
    IF file.json = "invalid" THEN s
    ELSE IF file.json = "null" THEN clearMission(s, confirmed)
    ELSE loadMission(s, file, confirmed)

loadSavedMission(s, mission, confirmed) == loadMission(s, mission, confirmed)

\* updateWaypointProperty(index, property, value) for the altitude input of
\* row index of the waypoint list (index counts from 1 here)
updateWaypointProperty(s, index, value) ==
    IF index > Len(s.waypoints) THEN s
    ELSE updateMissionSummary([s EXCEPT !.objs[s.waypoints[index]].altitude = value])

\* the input handlers of the mission parameters
setDefaultAltitude(s, v) == updateMissionSummary([s EXCEPT !.defaultAltitude = v])
setDefaultSpeed(s, v) == updateMissionSummary([s EXCEPT !.defaultSpeed = Or(v, 0)])
setSafetyReserve(s, v) == updateMissionSummary([s EXCEPT !.safetyReserve = v])
setWindSpeed(s, v) == updateMissionSummary([s EXCEPT !.windSpeed = v])

\* ----------------------------------------------------------- DroneManager
\* A profile object is [k, obj, id, name]: obj tells the objects apart (===
\* is equality of obj), id is its id field (0 while it has none) and name
\* stands for the fields read from the form.  A manager state is the record
\* [drones, currentDrone, editMode, thrown]; thrown tells that the method
\* ended in a TypeError.
Null == [k |-> "null", obj |-> 0, id |-> 0, name |-> ""]
Undefined == [k |-> "undefined", obj |-> 0, id |-> 0, name |-> ""]

\* values of the form's name field
FormNames == {"alpha", "beta"}

InUse(m) == {m.drones[i] : i \in 1..Len(m.drones)} \cup {m.currentDrone}

\* a new object: told apart from every object still referenced
NewObj(m, more) ==
    CHOOSE n \in 1..(Cardinality(InUse(m)) + 2) :
        /\ n \notin {d.obj : d \in InUse(m)} \cup more
        /\ \A j \in 1..(n - 1) : j \in {d.obj : d \in InUse(m)} \cup more

\* Date.now().toString(): an id no profile has yet
NewDroneId(m) ==
    CHOOSE n \in 1..(Cardinality(InUse(m)) + 1) :
        /\ n \notin {d.id : d \in InUse(m)}
        /\ \A j \in 1..(n - 1) : j \in {d.id : d \in InUse(m)}

\* this.drones.findIndex(d => d.id === id), 0 for -1
IndexOfId(q, id) ==
    IF \E i \in 1..Len(q) : q[i].id = id
    THEN CHOOSE i \in 1..Len(q) : q[i].id = id /\ \A j \in 1..(i - 1) : q[j].id # id
    ELSE 0

createNewDrone(m) == [m EXCEPT !.editMode = FALSE, !.currentDrone = Null]

\* viewDrone(index); this.drones[-1] is undefined and reading its name throws
viewDrone(m, index) ==
    IF index \in 1..Len(m.drones)
    THEN [m EXCEPT !.editMode = FALSE, !.currentDrone = m.drones[index]]
    ELSE [m EXCEPT !.editMode = FALSE, !.currentDrone = Undefined, !.thrown = TRUE]

editDrone(m, index) ==
    IF index \in 1..Len(m.drones)
    THEN [m EXCEPT !.editMode = TRUE, !.currentDrone = m.drones[index]]
    ELSE [m EXCEPT !.editMode = TRUE, !.currentDrone = Undefined, !.thrown = TRUE]

cancelEdit(m) == [m EXCEPT !.currentDrone = Null, !.editMode = FALSE]

\* deleteDrone(index); the comparison reads this.drones[index] after the splice
deleteDrone(m, index, confirmed) ==
    IF ~confirmed THEN m
    ELSE LET spliced == [m EXCEPT !.drones = Splice(m.drones, index)]
         IN IF /\ m.currentDrone.k = "object"
               /\ index <= Len(spliced.drones)
               /\ m.currentDrone = spliced.drones[index]
            THEN cancelEdit(spliced)
            ELSE spliced

\* saveDrone(); valid is form.checkValidity(), name the content of the form
saveDrone(m, valid, name) ==
    IF ~valid THEN m
    ELSE LET droneData == [k |-> "object", obj |-> NewObj(m, {}), id |-> 0, name |-> name]
             index == IndexOfId(m.drones, m.currentDrone.id)
             updated == [droneData EXCEPT !.obj = NewObj(m, {droneData.obj}),
                                          !.id = m.currentDrone.id]
             created == [droneData EXCEPT !.id = NewDroneId(m)]
             View(stored, data) == viewDrone(stored, IndexOfId(stored.drones, data.id))
         IN IF m.editMode /\ m.currentDrone.k = "object"
            THEN IF index # 0
                 THEN View([m EXCEPT !.drones[index] = updated], droneData)
                 ELSE View(m, droneData)
            ELSE View([m EXCEPT !.drones = Append(m.drones, created)], created)

\* ----------------------------------------------------------- state machine
This ==
    [waypoints |-> waypoints, objs |-> objs, markers |-> markers, icons |-> icons,
     selectedDrone |-> selectedDrone, homePoint |-> homePoint,
     defaultAltitude |-> defaultAltitude, defaultSpeed |-> defaultSpeed,
     safetyReserve |-> safetyReserve, windSpeed |-> windSpeed,
     summaryStatus |-> summaryStatus, summaryBattery |-> summaryBattery,
     warnings |-> warnings]

\* Object identities are opaque: after every step the objects are renamed
\* 1, 2, ... in the order `order` lists them (live objects first).
RECURSIVE Distinct(_, _)
Distinct(q, seen) ==
    IF Len(q) = 0 THEN <<>>
    ELSE IF Head(q) \in seen THEN Distinct(Tail(q), seen)
    ELSE <<Head(q)>> \o Distinct(Tail(q), seen \cup {Head(q)})

NameOf(order, id) == CHOOSE k \in 1..Len(order) : order[k] = id

Renamed(order, q) == [i \in 1..Len(q) |-> NameOf(order, q[i])]

Becomes(s, order) ==
    /\ waypoints' = Renamed(order, s.waypoints)
    /\ markers' = Renamed(order, s.markers)
    /\ icons' = s.icons
    /\ objs' = [k \in 1..Cardinality(DOMAIN s.objs) |-> s.objs[order[k]]]
    /\ selectedDrone' = s.selectedDrone
    /\ homePoint' = s.homePoint
    /\ defaultAltitude' = s.defaultAltitude
    /\ defaultSpeed' = s.defaultSpeed
    /\ safetyReserve' = s.safetyReserve
    /\ windSpeed' = s.windSpeed
    /\ summaryStatus' = s.summaryStatus
    /\ summaryBattery' = s.summaryBattery
    /\ warnings' = s.warnings
    /\ UNCHANGED managerVars

NoPre == [waypoints |-> <<>>, objs |-> <<>>]

\* a step of an operation without a history of its own, leading to planner state s
Ran(s) ==
    /\ \E order \in {Distinct(s.waypoints \o s.markers, {})} : Becomes(s, order)
    /\ lastOp' = "other"
    /\ pre' = NoPre

Init ==
    /\ waypoints = <<>>
    /\ objs = <<>>
    /\ markers = <<>>
    /\ icons = <<>>
    /\ selectedDrone = NoDrone
    /\ homePoint = <<>>
    /\ defaultAltitude = 50
    /\ defaultSpeed = 0
    /\ safetyReserve = 20
    /\ windSpeed = 0
    /\ pendingReads = <<>>
    /\ summaryStatus = ""
    /\ summaryBattery = [text |-> "", tenths |-> 0]
    /\ warnings = <<>>
    /\ drones = <<>>
    /\ currentDrone = Null
    /\ editMode = FALSE
    /\ lastOp = "other"
    /\ pre = NoPre

\* a click on the map
AddWaypoint(pt) ==
    /\ Len(waypoints) < MaxWaypoints
    /\ \E s \in {addWaypoint(This, pt[1], pt[2], "waypoint", 0, 0, 0)} : Ran(s)
    /\ UNCHANGED pendingReads

\* the Delete button of the i-th row of the waypoint list
DeleteWaypoint(i) ==
    /\ i \in 1..Len(waypoints)
    /\ \E s \in {deleteWaypoint(This, waypoints[i])} : Ran(s)
    /\ UNCHANGED pendingReads

\* the i-th marker is dragged to pt
DragMarker(i, pt) ==
    /\ i \in 1..Len(markers)
    /\ \E s \in {dragMarker(This, markers[i], pt[1], pt[2])} : Ran(s)
    /\ UNCHANGED pendingReads

SetHomePoint ==
    /\ \E s \in {setHomePoint(This)} : Ran(s)
    /\ UNCHANGED pendingReads

AddReturnToLaunch ==
    /\ Len(waypoints) < MaxWaypoints
    /\ \E s \in {addReturnToLaunch(This)} : Ran(s)
    /\ UNCHANGED pendingReads

\* optimizePath; the history keeps the sequence it was called on, under the
\* names the objects have after the step
OptimizePath ==
    /\ Len(waypoints) <= MaxWaypoints
    /\ \E s \in {optimizePath(This)} :
         \E order \in {Distinct(s.waypoints \o s.markers \o waypoints, {})} :
            /\ Becomes(s, order)
            /\ pre' = [waypoints |-> Renamed(order, waypoints),
                       objs |-> [k \in 1..Len(order) |-> objs[order[k]]]]
    /\ lastOp' = IF Reorders(This) THEN "optimizePath: reordered"
                                   ELSE "optimizePath: returned"
    /\ UNCHANGED pendingReads

ClearMission(confirmed) ==
    /\ \E s \in {clearMission(This, confirmed)} : Ran(s)
    /\ UNCHANGED pendingReads

SelectDrone(droneId) ==
    /\ \E s \in {selectDrone(This, droneId)} :
         \E order \in {Distinct(s.waypoints \o s.markers, {})} : Becomes(s, order)
    /\ lastOp' = IF getDroneById(droneId) # NoDrone THEN "selectDrone: found"
                                                    ELSE "selectDrone: none"
    /\ pre' = NoPre
    /\ UNCHANGED pendingReads

\* importMission(file): the read is started, the handler returns
ImportMission(file) ==
    /\ Len(pendingReads) < MaxPending
    /\ pendingReads' = Append(pendingReads, file)
    /\ lastOp' = "other"
    /\ pre' = NoPre
    /\ UNCHANGED <<waypoints, objs, markers, icons, selectedDrone, homePoint, defaultAltitude,
                   defaultSpeed, safetyReserve, windSpeed, summaryStatus,
                   summaryBattery, warnings>>
    /\ UNCHANGED managerVars

\* the load event of the i-th pending read
ImportOnload(i, confirmed) ==
    /\ i \in 1..Len(pendingReads)
    /\ \E s \in {importOnload(This, pendingReads[i], confirmed)} :
         /\ Len(s.waypoints) <= MaxWaypoints
         /\ Ran(s)
    /\ pendingReads' = Splice(pendingReads, i)

LoadSavedMission(mission, confirmed) ==
    /\ \E s \in {loadSavedMission(This, mission, confirmed)} :
         /\ Len(s.waypoints) <= MaxWaypoints
         /\ Ran(s)
    /\ UNCHANGED pendingReads

\* the altitude input of the i-th row of the waypoint list
UpdateWaypointProperty(i, v) ==
    /\ i \in 1..Len(waypoints)
    /\ \E s \in {updateWaypointProperty(This, i, v)} : Ran(s)
    /\ UNCHANGED pendingReads

SetDefaultAltitude(v) ==
    /\ \E s \in {setDefaultAltitude(This, v)} : Ran(s)
    /\ UNCHANGED pendingReads

SetDefaultSpeed(v) ==
    /\ \E s \in {setDefaultSpeed(This, v)} : Ran(s)
    /\ UNCHANGED pendingReads

SetSafetyReserve(v) ==
    /\ \E s \in {setSafetyReserve(This, v)} : Ran(s)
    /\ UNCHANGED pendingReads

SetWindSpeed(v) ==
    /\ \E s \in {setWindSpeed(This, v)} : Ran(s)
    /\ UNCHANGED pendingReads

\* The mission store: the operations on the waypoint sequence.
Next ==
    \/ \E pt \in Points : AddWaypoint(pt)
    \/ \E i \in 1..(MaxWaypoints + 1) : DeleteWaypoint(i)
    \/ SetHomePoint
    \/ AddReturnToLaunch
    \/ OptimizePath
    \/ \E c \in BOOLEAN : ClearMission(c)
    \/ \E f \in ImportFiles : ImportMission(f)
    \/ \E i \in 1..MaxPending, c \in BOOLEAN : ImportOnload(i, c)

Spec == Init /\ [][Next]_vars

\* The feasibility engine: saved missions with hover times, every drone
\* profile and the mission parameters.
SpeedInputs == {0, 10}
ReserveInputs == {20, 100}
WindInputs == {0, 15}

NextFeas ==
    \/ \E m \in SavedMissions, c \in BOOLEAN : LoadSavedMission(m, c)
    \/ \E d \in 0..Len(Drones) : SelectDrone(d)
    \/ \E v \in SpeedInputs : SetDefaultSpeed(v)
    \/ \E v \in ReserveInputs : SetSafetyReserve(v)
    \/ \E v \in WindInputs : SetWindSpeed(v)
    \/ \E c \in BOOLEAN : ClearMission(c)

SpecFeas == Init /\ [][NextFeas]_vars

\* Planning by hand with one drone profile: the mutations of the mission,
\* on missions of at most MaxPlanned waypoints.
AltitudeInputs == {30}

NextSync ==
    \/ \E d \in 0..1 : SelectDrone(d)
    \/ \E pt \in Points : Len(waypoints) < MaxPlanned /\ AddWaypoint(pt)
    \/ \E i \in 1..MaxPlanned : Len(waypoints) <= MaxPlanned /\ DeleteWaypoint(i)
    \/ \E i \in 1..MaxPlanned, pt \in Points : DragMarker(i, pt)
    \/ \E v \in AltitudeInputs : UpdateWaypointProperty(1, v)
    \/ SetHomePoint
    \/ \E v \in WindInputs : SetWindSpeed(v)
    \/ Len(waypoints) <= MaxPlanned /\ OptimizePath

SpecSync == Init /\ [][NextSync]_vars

\* Choosing among the drone profiles; the user enters no default speed.
NextSpeed ==
    \/ \E d \in 0..Len(Drones) : SelectDrone(d)
    \/ \E pt \in Points : Len(waypoints) < MaxPlanned /\ AddWaypoint(pt)
    \/ \E i \in 1..MaxPlanned : DeleteWaypoint(i)

SpecSpeed == Init /\ [][NextSpeed]_vars

\* Export and import: the user picks for import the file the mission on
\* screen exports, one file at a time, and lets the import clear the
\* mission; parameters and altitudes may be entered as 0.
ZeroInputs == {0}

NextFile ==
    \/ SelectDrone(1)
    \/ \E pt \in Points : Len(waypoints) < MaxPlanned /\ AddWaypoint(pt)
    \/ \E v \in ZeroInputs : UpdateWaypointProperty(1, v)
    \/ \E v \in ZeroInputs : SetSafetyReserve(v)
    \/ \E f \in ExportedFiles(This) : Len(pendingReads) = 0 /\ ImportMission(f)
    \/ ImportOnload(1, TRUE)

SpecFile == Init /\ [][NextFile]_vars

\* Positions outside the valid ranges: a click on a map scrolled past the
\* antimeridian, and a document with a latitude above 90 degrees.  No drone
\* is selected.
OutOfRangeClick == <<0, 181000000>>
OutOfRangeFile ==
    Document(0, <<>>, <<Entry(<<0, 0>>, "waypoint", 0), Entry(<<91000000, 0>>, "waypoint", 0)>>)

NextCoord ==
    \/ \E pt \in Points \cup {OutOfRangeClick} : Len(waypoints) < MaxPlanned /\ AddWaypoint(pt)
    \/ \E i \in 1..MaxPlanned : DeleteWaypoint(i)
    \/ ImportMission(OutOfRangeFile)
    \/ \E i \in 1..MaxPending, c \in BOOLEAN : ImportOnload(i, c)

SpecCoord == Init /\ [][NextCoord]_vars

\* Laying out a path: clicks at three positions, deletions and drags.
PathPoints == Points \cup {<<1000, 1000>>}

NextPath ==
    \/ \E pt \in PathPoints : AddWaypoint(pt)
    \/ \E i \in 1..MaxWaypoints : DeleteWaypoint(i)
    \/ \E i \in 1..MaxWaypoints, pt \in PathPoints : DragMarker(i, pt)

SpecPath == Init /\ [][NextPath]_vars

\* Reordering a route laid out over three positions, two of them at the
\* same distance from the third.
NextOrder ==
    \/ \E pt \in PathPoints : Len(waypoints) < MaxPlanned /\ AddWaypoint(pt)
    \/ \E i \in 1..MaxPlanned : DeleteWaypoint(i)
    \/ SetHomePoint
    \/ Len(waypoints) <= MaxPlanned /\ OptimizePath

SpecOrder == Init /\ [][NextOrder]_vars

\* Setting a home, moving markers and returning to launch.
NextHome ==
    \/ \E pt \in Points : Len(waypoints) < MaxPlanned /\ AddWaypoint(pt)
    \/ \E i \in 1..MaxPlanned, pt \in PathPoints : DragMarker(i, pt)
    \/ SetHomePoint
    \/ AddReturnToLaunch

SpecHome == Init /\ [][NextHome]_vars

\* Adding, deleting, reordering and clearing, nothing else.
NextMarkers ==
    \/ \E pt \in Points : AddWaypoint(pt)
    \/ \E i \in 1..(MaxWaypoints + 1) : DeleteWaypoint(i)
    \/ OptimizePath
    \/ \E c \in BOOLEAN : ClearMission(c)

SpecMarkers == Init /\ [][NextMarkers]_vars

\* ---- DroneManager
Manager == [drones |-> drones, currentDrone |-> currentDrone, editMode |-> editMode,
            thrown |-> FALSE]

Managed(m, op) ==
    /\ drones' = m.drones
    /\ currentDrone' = m.currentDrone
    /\ editMode' = m.editMode
    /\ lastOp' = IF m.thrown THEN op \o ": TypeError" ELSE op \o ": returned"
    /\ pre' = NoPre
    /\ UNCHANGED plannerVars

CreateNewDrone == Managed(createNewDrone(Manager), "createNewDrone")

\* a click on the i-th card of the drone list
ViewDrone(i) == i \in 1..Len(drones) /\ Managed(viewDrone(Manager, i), "viewDrone")

\* the Edit button of the i-th card
EditDrone(i) == i \in 1..Len(drones) /\ Managed(editDrone(Manager, i), "editDrone")

\* the Delete button of the i-th card
DeleteDrone(i, confirmed) ==
    i \in 1..Len(drones) /\ Managed(deleteDrone(Manager, i, confirmed), "deleteDrone")

SaveDrone(valid, name) ==
    /\ Len(drones) < MaxDrones \/ (editMode /\ currentDrone.k = "object")
    /\ Managed(saveDrone(Manager, valid, name), "saveDrone")

CancelEdit == Managed(cancelEdit(Manager), "cancelEdit")

NextDrones ==
    \/ CreateNewDrone
    \/ \E i \in 1..MaxDrones : ViewDrone(i)
    \/ \E i \in 1..MaxDrones : EditDrone(i)
    \/ \E i \in 1..MaxDrones, c \in BOOLEAN : DeleteDrone(i, c)
    \/ \E v \in BOOLEAN, name \in FormNames : SaveDrone(v, name)
    \/ CancelEdit

SpecDrones == Init /\ [][NextDrones]_vars

\* ------------------------------------------------------------------ claims
TypeAt(i) == objs[waypoints[i]].type
WaypointsOfType(t) == {id \in Range(waypoints) : objs[id].type = t}
Occurrences(q, id) == Cardinality({i \in 1..Len(q) : q[i] = id})
PreTypes == {pre.objs[pre.waypoints[i]].type : i \in 1..Len(pre.waypoints)}
PreOrdinary == Cardinality({i \in 1..Len(pre.waypoints) :
                               pre.objs[pre.waypoints[i]].type = "waypoint"})
Reordered == lastOp = "optimizePath: reordered"

\* C1: when optimizePath reorders, the result is a permutation of its input:
\* every waypoint object occurs in the result as often as it did in the input.
C1_ReorderIsPermutation ==
    Reordered =>
        \A id \in Range(pre.waypoints) \cup Range(waypoints) :
            Occurrences(waypoints, id) = Occurrences(pre.waypoints, id)

\* C2: at most one waypoint has type 'rtl', and if one exists it is the last
\* element of the sequence.
C2_RtlUniqueAndLast ==
    /\ Cardinality(WaypointsOfType("rtl")) <= 1
    /\ WaypointsOfType("rtl") # {} => TypeAt(Len(waypoints)) = "rtl"

\* C3: at most one waypoint has type 'home', and if one exists it is the first
\* element of the sequence.
C3_HomeUniqueAndFirst ==
    /\ Cardinality(WaypointsOfType("home")) <= 1
    /\ WaypointsOfType("home") # {} => TypeAt(1) = "home"

\* C4: after optimizePath reorders, a home waypoint of the input is the first
\* element of the result and an rtl waypoint of the input is the last one.
C4_HomeFirstRtlLast ==
    Reordered =>
        /\ "home" \in PreTypes =>
              /\ waypoints[1] \in Range(pre.waypoints)
              /\ pre.objs[waypoints[1]].type = "home"
              /\ TypeAt(1) = "home"
        /\ "rtl" \in PreTypes =>
              /\ waypoints[Len(waypoints)] \in Range(pre.waypoints)
              /\ pre.objs[waypoints[Len(waypoints)]].type = "rtl"
              /\ TypeAt(Len(waypoints)) = "rtl"

\* C4 witness: a reorder of a sequence holding a home that was not first and
\* an rtl, with the home first and the rtl last in the result
C4_Witness ==
    /\ Reordered
    /\ {"home", "rtl"} \subseteq PreTypes
    /\ pre.objs[pre.waypoints[1]].type # "home"
    /\ TypeAt(1) = "home"
    /\ TypeAt(Len(waypoints)) = "rtl"

\* C5: optimizePath called with fewer than 2 ordinary waypoints leaves the
\* sequence unchanged; called with 2 or more ordinary waypoints, whatever the
\* length of the sequence, it reorders.
C5_ReordersFromTwoOrdinary ==
    lastOp \in {"optimizePath: reordered", "optimizePath: returned"} =>
        IF PreOrdinary >= 2 THEN Reordered
        ELSE lastOp = "optimizePath: returned" /\ waypoints = pre.waypoints

\* the summary was computed from the current state
SummaryComputed == selectedDrone # NoDrone /\ Len(waypoints) >= 2
Verdicts == {"FEASIBLE", "RISKY", "CANNOT COMPLETE"}
\* v = n as numbers
Equals(v, n) == v.k = "fin" /\ v.n = n * v.d

\* C6 as stated: a battery requirement with reserve of exactly 80 is RISKY,
\* of exactly 100 is CANNOT COMPLETE.
C6_BoundaryUpper ==
    SummaryComputed =>
        /\ Equals(BatteryWithReserve(This), 80) => summaryStatus = "RISKY"
        /\ Equals(BatteryWithReserve(This), 100) => summaryStatus = "CANNOT COMPLETE"

\* C6 amended: a battery requirement with reserve of exactly 80 is FEASIBLE,
\* of exactly 100 is RISKY.
C6_BoundaryLower ==
    SummaryComputed =>
        /\ Equals(BatteryWithReserve(This), 80) => summaryStatus = "FEASIBLE"
        /\ Equals(BatteryWithReserve(This), 100) => summaryStatus = "RISKY"

C6_Witness ==
    /\ SummaryComputed
    /\ Equals(BatteryWithReserve(This), 80)
    /\ summaryStatus = "FEASIBLE"

\* the drone has the data a battery requirement is computed from
HasBatteryData(d) ==
    d.maxFlightTime # 0 \/ (d.batteryCapacity # 0 /\ d.hoverCurrent # 0)

\* C7: for a computed battery requirement with reserve b the status is
\* CANNOT COMPLETE if b > 100, otherwise RISKY if b > 80, otherwise FEASIBLE.
C7_StatusBands ==
    LET b == BatteryWithReserve(This) IN
    (SummaryComputed /\ HasBatteryData(selectedDrone) /\ b.k = "fin") =>
        /\ summaryStatus \in Verdicts
        /\ summaryStatus = "CANNOT COMPLETE" <=> b.n > 100 * b.d
        /\ summaryStatus = "RISKY" <=> (b.n <= 100 * b.d /\ b.n > 80 * b.d)
        /\ summaryStatus = "FEASIBLE" <=> b.n <= 80 * b.d

C7_Witness ==
    LET b == BatteryWithReserve(This) IN
    /\ SummaryComputed /\ HasBatteryData(selectedDrone) /\ b.k = "fin"
    /\ b.n > 80 * b.d /\ b.n < 100 * b.d
    /\ summaryStatus = "RISKY"

\* C8: with a drone that has neither maxFlightTime nor both batteryCapacity
\* and hoverCurrent, no verdict and no numeric battery percentage is shown.
C8_NoDataIsIndeterminate ==
    (SummaryComputed /\ ~HasBatteryData(selectedDrone)) =>
        /\ summaryStatus \notin Verdicts
        /\ summaryBattery.text # "number"

\* C9: with an effective speed of zero no verdict is shown.
C9_ZeroSpeedIsIndeterminate ==
    (SummaryComputed /\ Or(defaultSpeed, selectedDrone.cruiseSpeed) = 0) =>
        summaryStatus \notin Verdicts

\* C10: every warning whose condition holds is in the list updateWarnings
\* renders (no drone, no waypoints, altitude limit, wind limit, no home).
C10_EveryApplicableWarning ==
    lastOp = "selectDrone: found" =>
        /\ selectedDrone = NoDrone => WNoDrone \in Range(warnings)
        /\ Len(waypoints) = 0 => WNoWaypoints \in Range(warnings)
        /\ (selectedDrone # NoDrone /\ Len(waypoints) > 0 /\ selectedDrone.maxAltitude # 0
              /\ MaxAltitudeOf(waypoints, objs) > selectedDrone.maxAltitude)
               => WAltitude(selectedDrone.maxAltitude) \in Range(warnings)
        /\ (selectedDrone # NoDrone /\ windSpeed > Or(selectedDrone.windResistance, 10))
               => WWind \in Range(warnings)
        /\ homePoint = <<>> => WNoHome \in Range(warnings)

\* the warning that corresponds to a status
WarningFor(status) ==
    CASE status = "CANNOT COMPLETE" -> WExceeds
      [] status = "RISKY" -> WLowMargin
      [] status = "FEASIBLE" -> WFeasible

\* C11: with a drone selected and at least 2 waypoints, the status warning in
\* the warning list is the one that corresponds to the displayed status.
C11_WarningMatchesStatus ==
    (SummaryComputed /\ summaryStatus \in Verdicts) =>
        Range(warnings) \cap {WExceeds, WLowMargin, WFeasible} = {WarningFor(summaryStatus)}

\* The battery requirement in tenths of a percent, from the closed form of
\* the formula: with D the distance in cm, v the speed, w the wind speed and H
\* the hover seconds, the flight takes (D(10v + 3w) + 1000 v^2 H) / (60000 v^2)
\* minutes, and the requirement is that over the maximum p/q minutes, times 100.
TenthsOf(centimetres, v, w, hover, p, q) ==
    ((centimetres * (10 * v + 3 * w) + 1000 * v * v * hover) * q + 30 * v * v * p)
        \div (60 * v * v * p)

DistanceInCm == (getTotalDistance(This).n * 100) \div getTotalDistance(This).d

ExpectedTenths(p, q) ==
    TenthsOf(DistanceInCm, Or(defaultSpeed, selectedDrone.cruiseSpeed), windSpeed,
             SumHover(waypoints, objs, 1), p, q)

\* C18: the displayed battery requirement is the total flight minutes over
\* maxFlightTime, times 100, whenever maxFlightTime is known; when it is not and
\* batteryCapacity and hoverCurrent are, the maximum is
\* (batteryCapacity / 1000 / hoverCurrent) * 60 * 0.8 = 6 capacity / (125 current).
C18_BatteryRequiredFormula ==
    LET d == selectedDrone
        derived == Fin(6 * d.batteryCapacity, 125 * d.hoverCurrent)
    IN (SummaryComputed /\ Or(defaultSpeed, d.cruiseSpeed) # 0 /\ HasBatteryData(d)) =>
        /\ summaryBattery.text = "number"
        /\ summaryBattery.tenths = IF d.maxFlightTime # 0
                                   THEN ExpectedTenths(d.maxFlightTime, 1)
                                   ELSE ExpectedTenths(derived.n, derived.d)

\* C18 witness: a requirement shown for a drone with all three values known
C18_Witness ==
    /\ SummaryComputed
    /\ selectedDrone.maxFlightTime # 0
    /\ selectedDrone.batteryCapacity # 0 /\ selectedDrone.hoverCurrent # 0
    /\ summaryBattery.text = "number" /\ summaryBattery.tenths > 0
    /\ summaryBattery.tenths = ExpectedTenths(selectedDrone.maxFlightTime, 1)

\* what a mission consists of: the waypoints in order, the home point, the
\* mission parameters and the selected drone
Store(s) ==
    [waypoints |-> [i \in 1..Len(s.waypoints) |-> s.objs[s.waypoints[i]]],
     homePoint |-> s.homePoint,
     parameters |-> <<s.defaultAltitude, s.defaultSpeed, s.safetyReserve, s.windSpeed>>,
     selectedDrone |-> s.selectedDrone]

\* C14: the load of a file that does not hold a mission object (invalid JSON,
\* or null) leaves waypoints, home point, parameters and drone as they were.
C14_FailedImportChangesNothing ==
    [][\A i \in 1..Len(pendingReads), c \in BOOLEAN :
          (pendingReads[i].json # "object" /\ ImportOnload(i, c))
              => Store(This') = Store(This)]_vars

\* C16: when importMission was issued on a mission document (its read is
\* pending) and addWaypoint is issued next, the state after both took effect (the click first, the load
\* event after it) is the import applied first and the addWaypoint second.
C16_ImportBeforeLaterMutation ==
    \A i \in 1..Len(pendingReads), pt \in Points, c \in BOOLEAN :
        (pendingReads[i].json = "object" /\ Len(waypoints) < MaxWaypoints) =>
            Store(importOnload(addWaypoint(This, pt[1], pt[2], "waypoint", 0, 0, 0),
                               pendingReads[i], c))
            = Store(addWaypoint(importOnload(This, pendingReads[i], c),
                                pt[1], pt[2], "waypoint", 0, 0, 0))

\* the text of #summary-status computed from planner state m
StatusText(m) ==
    IF m.selectedDrone = NoDrone THEN "No drone selected"
    ELSE IF Len(m.waypoints) < 2 THEN "No waypoints"
    ELSE StatusOf(BatteryWithReserve(m))

\* status and warning list are the ones computed from the state
InSync == summaryStatus = StatusText(This) /\ warnings = updateWarnings(This)

\* the step ran updateWarnings with a drone selected and at least one waypoint
WarningsComputed ==
    \/ \E d \in 1..Len(Drones) : SelectDrone(d) /\ Len(waypoints') >= 1
    \/ /\ SummaryComputed'
       /\ \/ \E pt \in Points : AddWaypoint(pt)
          \/ \E i \in 1..Len(waypoints) : DeleteWaypoint(i)
          \/ \E i \in 1..Len(markers), pt \in Points : DragMarker(i, pt)
          \/ \E v \in WindInputs : SetWindSpeed(v)

\* C12: whenever the warnings are computed with a drone selected and at least
\* one waypoint, the 'no home point set' warning is listed if and only if no
\* waypoint has type 'home'.
C12_NoHomeWarningIffNoHomeWaypoint ==
    [][WarningsComputed =>
          (WNoHome \in Range(warnings') <=> WaypointsOfType("home")' = {})]_vars

\* C13: a mutation of a mission whose displayed status and warning list are
\* the ones computed from it leads to a mission of which that is true again.
C13_DisplayFollowsMutation ==
    [][InSync => InSync']_vars

\* C17: the user having entered no default speed, the speed the flight time is
\* computed with is the cruise speed of the selected drone.
C17_SpeedOfSelectedDrone ==
    SummaryComputed => AvgSpeed(This) = selectedDrone.cruiseSpeed

\* C15: importing the file the current mission exports (the mission on screen
\* being cleared first) yields the same waypoints in the same order, with the
\* same fields, and the same four mission parameters.
C15_ExportImportRoundTrip ==
    [][\A i \in 1..Len(pendingReads) :
          (pendingReads[i] \in ExportedFiles(This) /\ ImportOnload(i, TRUE))
              => /\ Store(This').waypoints = Store(This).waypoints
                 /\ Store(This').parameters = Store(This).parameters]_vars

\* a latitude within [-90, 90] and a longitude within [-180, 180], in microdegrees
ValidCoordinate(lat, lng) ==
    /\ -90000000 <= lat /\ lat <= 90000000
    /\ -180000000 <= lng /\ lng <= 180000000

\* C19: no waypoint of the sequence has a latitude outside [-90, 90] or a
\* longitude outside [-180, 180].
C19_NoInvalidCoordinate ==
    \A i \in 1..Len(waypoints) :
        ValidCoordinate(objs[waypoints[i]].lat, objs[waypoints[i]].lng)

\* C20: generateSmoothPath returns exactly the coordinates of the waypoints,
\* in order, when there are fewer than 3 waypoints, and exactly
\* 20 * (n - 1) + 1 points when there are n >= 3 waypoints.
C20_SmoothPathLength ==
    LET n == Len(waypoints)
        path == generateSmoothPath(This)
    IN IF n < 3
       THEN path = [i \in 1..n |-> <<Exact(objs[waypoints[i]].lat),
                                     Exact(objs[waypoints[i]].lng)>>]
       ELSE Len(path) = 20 * (n - 1) + 1

\* a path through at least 3 waypoints that leaves the straight legs
C20_Witness ==
    /\ Len(waypoints) >= 3
    /\ Len(generateSmoothPath(This)) = 20 * (Len(waypoints) - 1) + 1
    /\ \E k \in 1..Len(generateSmoothPath(This)) :
          generateSmoothPath(This)[k][1] % SplineUnit # 0

\* C21: for n >= 3 waypoints the smoothed path passes through every waypoint
\* in order: the point at index 20 * i (counted from 0) is waypoint i for
\* i = 0 .. n - 2, and the last waypoint is the final point, appended once
\* after the 20 * (n - 1) interpolated points.
PositionOf(i) == <<Exact(objs[waypoints[i]].lat), Exact(objs[waypoints[i]].lng)>>

C21_PathThroughWaypoints ==
    LET n == Len(waypoints)
        path == generateSmoothPath(This)
    IN n >= 3 =>
          /\ \A i \in 0..(n - 2) : path[20 * i + 1] = PositionOf(i + 1)
          /\ Len(path) = 20 * (n - 1) + 1
          /\ path[Len(path)] = PositionOf(n)

\* three or more waypoints, no two consecutive ones at the same position
C21_Witness ==
    /\ Len(waypoints) >= 3
    /\ \A i \in 1..(Len(waypoints) - 1) : PositionOf(i) # PositionOf(i + 1)
    /\ generateSmoothPath(This)[21] = PositionOf(2)

\* C22: in the result of optimizePath every ordinary waypoint placed after
\* the start is no farther from the waypoint placed just before it than any
\* ordinary waypoint not yet placed, and among those at the same distance it
\* is the one that comes earliest in the sequence optimizePath was called on.
DistanceBetween(a, b) == calculateDistance(objs[a].lat, objs[a].lng, objs[b].lat, objs[b].lng)
PreIndex(id) == CHOOSE i \in 1..Len(pre.waypoints) :
                    /\ pre.waypoints[i] = id
                    /\ \A j \in 1..(i - 1) : pre.waypoints[j] # id
NotYetPlaced(k) == {id \in Range(pre.waypoints) :
                       /\ pre.objs[id].type = "waypoint"
                       /\ id \notin {waypoints[j] : j \in 1..(k - 1)}}
Tied(k, x) == /\ ~FGt(DistanceBetween(waypoints[k - 1], waypoints[k]),
                      DistanceBetween(waypoints[k - 1], x))
              /\ ~FGt(DistanceBetween(waypoints[k - 1], x),
                      DistanceBetween(waypoints[k - 1], waypoints[k]))

C22_NearestFirstEarliest ==
    Reordered =>
        \A k \in 2..Len(waypoints) :
            TypeAt(k) = "waypoint" =>
                /\ waypoints[k] \in Range(pre.waypoints)
                /\ \A x \in NotYetPlaced(k) :
                      /\ ~FGt(DistanceBetween(waypoints[k - 1], waypoints[k]),
                              DistanceBetween(waypoints[k - 1], x))
                      /\ (Tied(k, x) /\ x # waypoints[k])
                            => PreIndex(waypoints[k]) < PreIndex(x)

\* a reordering in which one choice was among waypoints at the same
\* distance and another left a farther waypoint for later
C22_Witness ==
    /\ Reordered
    /\ \E k \in 2..Len(waypoints) :
          /\ TypeAt(k) = "waypoint"
          /\ \E x \in NotYetPlaced(k) : x # waypoints[k] /\ Tied(k, x)
    /\ \E k \in 2..Len(waypoints) :
          /\ TypeAt(k) = "waypoint"
          /\ \E x \in NotYetPlaced(k) :
                FGt(DistanceBetween(waypoints[k - 1], x),
                    DistanceBetween(waypoints[k - 1], waypoints[k]))

\* C23: optimizePath is deterministic: on two copies of the same waypoint
\* sequence (other objects with the same positions, types and order) it
\* produces the same sequence of positions and types.
Copy(s) ==
    LET n == Cardinality(DOMAIN s.objs)
        Other(id) == n + 1 - id
    IN [s EXCEPT !.objs = [id \in DOMAIN s.objs |-> s.objs[Other(id)]],
                 !.waypoints = [i \in 1..Len(s.waypoints) |-> Other(s.waypoints[i])],
                 !.markers = [i \in 1..Len(s.markers) |-> Other(s.markers[i])]]
Contents(s) == [i \in 1..Len(s.waypoints) |-> s.objs[s.waypoints[i]]]

C23_OptimizeDeterministic ==
    /\ Contents(Copy(This)) = Contents(This)
    /\ Contents(optimizePath(Copy(This))) = Contents(optimizePath(This))

\* a route optimizePath puts into another order, the choice being among
\* waypoints at different positions and the same distance
C23_Witness ==
    /\ Reorders(This)
    /\ Copy(This).waypoints # waypoints
    /\ Contents(optimizePath(This)) # Contents(This)
    /\ \E a, b \in Range(waypoints) :
          /\ objs[a].type = "waypoint" /\ objs[b].type = "waypoint"
          /\ <<objs[a].lat, objs[a].lng>> # <<objs[b].lat, objs[b].lng>>
          /\ DistanceBetween(waypoints[1], a) = DistanceBetween(waypoints[1], b)

\* C24: the stored homePoint is non-null if and only if the waypoint
\* sequence contains a waypoint of type 'home'.
C24_HomePointIffHomeWaypoint ==
    (homePoint # <<>>) <=> (\E i \in 1..Len(waypoints) : TypeAt(i) = "home")

\* C25: every rtl waypoint appended by addReturnToLaunch has the latitude
\* and longitude the waypoint of type 'home' has at the moment of the call.
C25_RtlAtHomeWaypoint ==
    [][(AddReturnToLaunch /\ Len(waypoints') > Len(waypoints)) =>
          /\ WaypointsOfType("home") # {}
          /\ \A h \in WaypointsOfType("home") :
                /\ objs'[waypoints'[Len(waypoints')]].lat = objs[h].lat
                /\ objs'[waypoints'[Len(waypoints')]].lng = objs[h].lng]_vars

\* C26: after an import that completes without error the waypoint sequence
\* consists of exactly the waypoints of the loaded document, in document
\* order, whatever the store held and however the dialog was answered.
Placed == [k \in 1..Len(waypoints) |->
              <<objs[waypoints[k]].lat, objs[waypoints[k]].lng, objs[waypoints[k]].type>>]
PlacedBy(file) == [k \in 1..Len(file.waypoints) |->
                      <<file.waypoints[k].latitude, file.waypoints[k].longitude,
                        file.waypoints[k].type>>]

C26_LoadReplacesWaypoints ==
    [][\A i \in 1..MaxPending, c \in BOOLEAN :
          (/\ i <= Len(pendingReads)
           /\ pendingReads[i].json = "object"
           /\ ImportOnload(i, c))
          => Placed' = PlacedBy(pendingReads[i])]_vars

\* C27: the marker list and the waypoint sequence have the same length, the
\* i-th marker belongs to the i-th waypoint, and the number shown on a
\* marker is the position of its waypoint in the flight order.
MarkersAligned ==
    /\ Len(markers) = Len(waypoints)
    /\ \A i \in 1..Len(markers) : markers[i] = waypoints[i]

C27_MarkersFollowWaypoints ==
    /\ MarkersAligned
    /\ \A i \in 1..Len(markers) :
          icons[i].text = "number" => icons[i].number = i

\* C28: optimizePath is idempotent: run twice in succession it yields the
\* same waypoint sequence (same length, same order) as run once.
C28_OptimizeIdempotent ==
    optimizePath(optimizePath(This)).waypoints = optimizePath(This).waypoints

\* C29: currentDrone is always null or an element of the drones list;
\* deleting the drone currently shown resets currentDrone to null and
\* deleting another drone leaves currentDrone unchanged.
CurrentIsListed ==
    currentDrone = Null \/ \E i \in 1..Len(drones) : drones[i] = currentDrone

C29_CurrentDroneListed ==
    [][/\ CurrentIsListed'
       /\ \A i \in 1..MaxDrones :
             DeleteDrone(i, TRUE) =>
                 IF drones[i] = currentDrone THEN currentDrone' = Null
                 ELSE currentDrone' = currentDrone]_vars

\* C30: saveDrone on a valid form in edit mode completes without error,
\* leaves the number of drones unchanged, keeps the edited drone's id and
\* ends with editMode false and currentDrone the updated record of the list;
\* when not in edit mode it appends exactly one drone and ends with
\* currentDrone that new record.
C30_SaveDrone ==
    [][\A name \in FormNames :
          SaveDrone(TRUE, name) =>
              IF editMode
              THEN /\ lastOp' = "saveDrone: returned"
                   /\ Len(drones') = Len(drones)
                   /\ ~editMode'
                   /\ currentDrone'.id = currentDrone.id
                   /\ currentDrone'.name = name
                   /\ \E i \in 1..Len(drones') : drones'[i] = currentDrone'
              ELSE /\ lastOp' = "saveDrone: returned"
                   /\ drones' = Append(drones, drones'[Len(drones')])
                   /\ currentDrone' = drones'[Len(drones')]
                   /\ currentDrone'.name = name]_vars

====
